---- MODULE Spec2Model ----
(***************************************************************************)
(* Model of inventory_app.py: one Streamlit script run that loads two      *)
(* uploaded tables, aggregates them, left-joins the stock aggregate with   *)
(* the sales aggregate, scores every row and renders / exports the result. *)
(*                                                                         *)
(* Column names of the source and the field names used here:               *)
(*   国家 / 国家（地区） -> country     品名 -> name        SKU -> sku       *)
(*   销量 -> sales                     FBA库存 -> fba      入库中 -> inbound *)
(*   FBA在途 -> transit                在途总计 -> transit_total            *)
(*   过去30天总销量 -> sales30          未来30天预估销量 -> forecast          *)
(*   库销比 -> ratio                                                        *)
(*                                                                         *)
(* Numbers.  A float quantity x is held as the integer 10*x (tenths), so   *)
(* 0.5 is 5 and the sentinel 99.0 is 990; growth_factor and ratio are in   *)
(* tenths too.  Columns that the code casts with astype(int) hold whole    *)
(* units after the cast.  Arithmetic is exact decimal arithmetic; the     *)
(* rounding error of the code's binary floating point is not modelled.    *)
(***************************************************************************)
EXTENDS Integers, Sequences, FiniteSets, TLC

VARIABLES
    growth_factor,     \* slider value (line 10), in tenths
    inv_file,          \* uploaded stock file (line 14): None or Some(file)
    sales_file,        \* uploaded sales file (line 16): None or Some(file)
    pc,                \* position of the script run
    df_inv_raw,        \* line 45: None or Some(raw table)
    df_sales_raw,      \* line 46: None or Some(raw table)
    df_sales,          \* lines 52-53: the cleaned sales table
    df_sales_grouped,  \* lines 55-57
    df_inv,            \* lines 61-66: the cleaned stock table
    df_inv_grouped,    \* lines 68-71
    merged_df,         \* final_df as left by lines 74-75
    scored_df,         \* final_df as left by lines 79-89 (before the int cast)
    cast_df,           \* final_df as left by line 93 (before the sort)
    final_df,          \* final_df as left by line 97
    styles,            \* per-row cell styles computed by the Styler (line 103)
    output,            \* rows written to the export buffer (lines 110-111)
    shown,             \* elements the run has put on the page
    uncaught,          \* an exception escaped the script (outside the try block)
    unparseable        \* which uploaded files had bytes no attempted parser accepts

vars == <<growth_factor, inv_file, sales_file, pc, df_inv_raw, df_sales_raw,
          df_sales, df_sales_grouped, df_inv, df_inv_grouped, merged_df,
          scored_df, cast_df, final_df, styles, output, shown, uncaught,
          unparseable>>

-----------------------------------------------------------------------------
(* Optional values: Python's None and a present value. *)
None == <<>>
Some(x) == <<x>>

(* Cells of a quantity column as read from the file. *)
Num(v) == [kind |-> "num", v |-> v]
TextCell == [kind |-> "text", v |-> 0]
NaNCell == [kind |-> "nan", v |-> 0]

(* A missing key cell (pandas NaN in an object column). *)
NaNKey == "NaN"

(* Code-point order of the key strings in use (groupby sorts its keys). *)
Alphabet == <<"A", "B", "C", "DE", "US", "n1", "n2">>
KeyRank(s) == CHOOSE i \in 1..Len(Alphabet) : Alphabet[i] = s

-----------------------------------------------------------------------------
(* pd.to_numeric(..., errors='coerce'): a number or numeric string keeps   *)
(* its value, anything else becomes NaN.                                   *)
to_numeric(c) == IF c.kind = "num" THEN c ELSE NaNCell

(* Series.fillna(0) on one cell. *)
fillna0(c) == IF c.kind = "nan" THEN Num(0) ELSE c

(* The coercion of lines 53 and 64, giving the float as tenths. *)
CoerceClipped(c) == IF fillna0(to_numeric(c)).v < 0 THEN 0 ELSE fillna0(to_numeric(c)).v

Coerce(c) == fillna0(to_numeric(c)).v

(* round-half-to-even of n/d for d > 0 (numpy rint / Series.round). *)
RoundHalfEven(n, d) ==
    LET q == n \div d
        r == n - q * d
    IN  IF 2 * r > d THEN q + 1
        ELSE IF 2 * r < d THEN q
        ELSE IF q % 2 = 0 THEN q ELSE q + 1

(* astype(int) of a float held in tenths: truncation toward zero. *)
AsTypeInt(t) == IF t >= 0 THEN t \div 10 ELSE 0 - ((0 - t) \div 10)

RECURSIVE SumSeq(_)
SumSeq(s) == IF s = <<>> THEN 0 ELSE Head(s) + SumSeq(Tail(s))

SeqRange(s) == {s[i] : i \in 1..Len(s)}

(* Lexicographic order of key tuples of equal length. *)
KeyLess(a, b) ==
    \E i \in 1..Len(a) :
        /\ KeyRank(a[i]) < KeyRank(b[i])
        /\ \A j \in 1..(i - 1) : a[j] = b[j]

RECURSIVE SortedKeys(_)
SortedKeys(S) ==
    IF S = {} THEN <<>>
    ELSE LET m == CHOOSE x \in S : \A y \in S \ {x} : KeyLess(x, y)
         IN  <<m>> \o SortedKeys(S \ {m})

HasNaN(k) == \E i \in 1..Len(k) : k[i] = NaNKey

-----------------------------------------------------------------------------
(* Step 1, lines 51-57. *)
sales_cols == {"name", "sku", "country", "sales"}

SalesKey(r) == <<r.country, r.sku>>

(* lines 52-53: the projection (品名 is projected too, and never read      *)
(* again) and the coercion of every row                                   *)
CleanSales(rows) ==
    [i \in 1..Len(rows) |->
        [country |-> rows[i].country, sku |-> rows[i].sku,
         sales |-> Coerce(rows[i].sales)]]

(* lines 55-57: groupby(['国家','SKU'], as_index=False).agg(sum).rename;    *)
(* rows with a missing key are left out and groups come in key order.      *)
GroupSalesNoAgg(df) ==
    LET kept == SelectSeq(df, LAMBDA r : ~HasNaN(SalesKey(r)))
    IN  [i \in 1..Len(kept) |->
            [country |-> kept[i].country, sku |-> kept[i].sku,
             sales30 |-> kept[i].sales]]

GroupSales(df) ==
    LET keys == SortedKeys({SalesKey(r) : r \in {x \in SeqRange(df) : ~HasNaN(SalesKey(x))}})
    IN  [i \in 1..Len(keys) |->
            [country |-> keys[i][1], sku |-> keys[i][2],
             sales30 |-> SumSeq([j \in 1..Len(SelectSeq(df, LAMBDA r : SalesKey(r) = keys[i])) |->
                                  SelectSeq(df, LAMBDA r : SalesKey(r) = keys[i])[j].sales])]]

(* Step 2, lines 60-71. *)
inv_target == {"name", "sku", "country", "fba", "inbound", "transit"}

InvKey(r) == <<r.country, r.name, r.sku>>

(* lines 61-66 applied to every row of the projected stock table *)
CleanInv(rows) ==
    [i \in 1..Len(rows) |->
        [country |-> rows[i].country, name |-> rows[i].name, sku |-> rows[i].sku,
         fba |-> Coerce(rows[i].fba),
         inbound |-> Coerce(rows[i].inbound),
         transit |-> Coerce(rows[i].transit),
         transit_total |-> Coerce(rows[i].inbound) + Coerce(rows[i].transit)]]

(* lines 68-71 *)
GroupInv(df) ==
    LET keys == SortedKeys({InvKey(r) : r \in {x \in SeqRange(df) : ~HasNaN(InvKey(x))}})
    IN  [i \in 1..Len(keys) |->
            LET grp == SelectSeq(df, LAMBDA r : InvKey(r) = keys[i])
            IN  [country |-> keys[i][1], name |-> keys[i][2], sku |-> keys[i][3],
                 fba |-> SumSeq([j \in 1..Len(grp) |-> grp[j].fba]),
                 transit_total |-> SumSeq([j \in 1..Len(grp) |-> grp[j].transit_total])]]

(* Step 3, line 74: pd.merge(left, right, on=['国家','SKU'], how='left').    *)
(* Every left row comes out once per matching right row, or once with a    *)
(* missing sales value when nothing matches; left order is kept.           *)
JoinKey(r) == <<r.country, r.sku>>

MergeRow(l, sales) ==
    [country |-> l.country, name |-> l.name, sku |-> l.sku, fba |-> l.fba,
     transit_total |-> l.transit_total, sales30 |-> sales]

RECURSIVE LeftJoin(_, _)
LeftJoin(left, right) ==
    IF left = <<>> THEN <<>>
    ELSE LET l == Head(left)
             m == SelectSeq(right, LAMBDA r : JoinKey(r) = JoinKey(l))
         IN  (IF m = <<>> THEN <<MergeRow(l, NaNCell)>>
              ELSE [j \in 1..Len(m) |-> MergeRow(l, Num(m[j].sales30))])
             \o LeftJoin(Tail(left), right)

(* how='inner': left rows without a match are left out *)
MergeInner(left, right) ==
    SelectSeq(LeftJoin(left, right), LAMBDA x : x.sales30.kind # "nan")

(* how='outer': right rows without a match are appended *)
MergeOuter(left, right) ==
    LET only == SelectSeq(right, LAMBDA r :
                    \A i \in 1..Len(left) : JoinKey(left[i]) # JoinKey(r))
    IN  LeftJoin(left, right)
        \o [j \in 1..Len(only) |->
               [country |-> only[j].country, name |-> NaNKey, sku |-> only[j].sku,
                fba |-> 0, transit_total |-> 0, sales30 |-> Num(only[j].sales30)]]

Merge(left, right) == LeftJoin(left, right)

(* line 75: fillna(0) on the sales column *)
FillSales(df) == [i \in 1..Len(df) |-> [df[i] EXCEPT !.sales30 = fillna0(@).v]]

-----------------------------------------------------------------------------
(* Step 4, lines 79-93. *)

(* line 86: the ratio given to rows without sales, 99.0 *)
NoSalesRatio == 990

(* line 79: (sales * growth_factor).round(0).astype(int), in whole units *)
ForecastHalfUp(sales30, g) == (sales30 * g + 50) \div 100

Forecast(sales30, g) == RoundHalfEven(sales30 * g, 100)

(* lines 83-89: np.where(sales > 0, (fba + transit_total) / sales, 99.0), *)
(* rounded to one decimal                                                *)
RatioAfterCast(r) ==
    IF AsTypeInt(r.sales30) > 0
    THEN RoundHalfEven(10 * (AsTypeInt(r.fba) + AsTypeInt(r.transit_total)),
                       AsTypeInt(r.sales30))
    ELSE NoSalesRatio

Ratio(r) ==
    IF r.sales30 > 0
    THEN RoundHalfEven(10 * (r.fba + r.transit_total), r.sales30)
    ELSE NoSalesRatio

ScoreRow(r, g) ==
    [country |-> r.country, name |-> r.name, sku |-> r.sku, fba |-> r.fba,
     transit_total |-> r.transit_total, sales30 |-> r.sales30,
     forecast |-> Forecast(r.sales30, g), ratio |-> Ratio(r)]

Score(df, g) == [i \in 1..Len(df) |-> ScoreRow(df[i], g)]

(* lines 92-93: astype(int) on the four count columns (forecast is whole   *)
(* already); the cast columns hold whole units from here on                *)
CastRow(r) ==
    [r EXCEPT !.fba = AsTypeInt(@), !.transit_total = AsTypeInt(@),
              !.sales30 = AsTypeInt(@)]

Cast(df) == [i \in 1..Len(df) |-> CastRow(df[i])]

(* lines 96-97: sort_values(by=[ratio, sales30], ascending=[True, False]); *)
(* a multi-column sort is a stable lexsort.                                *)
display_cols == <<"country", "name", "sku", "fba", "transit_total", "sales30",
                  "forecast", "ratio">>

BeforeAscending(a, b) ==
    a.ratio < b.ratio \/ (a.ratio = b.ratio /\ a.sales30 < b.sales30)

Before(a, b) == a.ratio < b.ratio \/ (a.ratio = b.ratio /\ a.sales30 > b.sales30)

InsertRow(s, x) ==
    LET later == {i \in 1..Len(s) : Before(x, s[i])}
        at == IF later = {} THEN Len(s) + 1
              ELSE CHOOSE i \in later : \A j \in later : i <= j
    IN  SubSeq(s, 1, at - 1) \o <<x>> \o SubSeq(s, at, Len(s))

RECURSIVE SortValues(_)
SortValues(df) ==
    IF df = <<>> THEN <<>>
    ELSE InsertRow(SortValues(SubSeq(df, 1, Len(df) - 1)), df[Len(df)])

-----------------------------------------------------------------------------
(* Step 5, lines 31-42 and 103-105. *)
highlight == "background-color: #FF0000; color: #FFFF00; font-weight: bold;"
default == ""

(* line 40: the ratio below which a selling row is marked, 2 *)
LowRatio == 20

highlight_ratio_le(row) ==
    IF row.ratio <= LowRatio /\ row.sales30 > 0
    THEN [c \in 1..Len(display_cols) |-> highlight]
    ELSE [c \in 1..Len(display_cols) |-> default]

highlight_low_ratio(row) ==
    IF row.ratio < LowRatio /\ row.sales30 > 0
    THEN [c \in 1..Len(display_cols) |-> highlight]
    ELSE [c \in 1..Len(display_cols) |-> default]

(* Styler.apply(highlight_low_ratio, axis=1): one style list per row *)
StyleApply(df) == [i \in 1..Len(df) |-> highlight_low_ratio(df[i])]

-----------------------------------------------------------------------------
(* Loader, lines 18-28. *)

(* What the uploaded bytes are: text in one of three encodings, a          *)
(* spreadsheet workbook, or something no parser accepts.                   *)
Formats == {"utf-8", "gbk", "utf-16", "workbook", "garbage"}

encodings == <<"utf-8", "gbk", "utf-16">>

(* pd.read_csv(BytesIO(content), encoding=enc) succeeds *)
ReadCsvOk(blob, enc) == blob.format = enc

(* pd.read_excel(file) succeeds *)
ReadExcelOk(blob) == blob.format = "workbook"

(* read_file: [raised, df]; raised means an exception left the function *)
read_file(file, blob) ==
    IF file = None THEN [raised |-> FALSE, df |-> None]
    ELSE IF file[1].ext \in {".xlsx", ".xls"}
    THEN IF ReadExcelOk(blob)
         THEN [raised |-> FALSE, df |-> Some(blob.table)]
         ELSE [raised |-> TRUE, df |-> None]
    ELSE LET ok == {i \in 1..Len(encodings) : ReadCsvOk(blob, encodings[i])}
         IN  IF ok = {} THEN [raised |-> FALSE, df |-> None]
             ELSE [raised |-> FALSE, df |-> Some(blob.table)]

(* No parser that read_file attempts for this file name accepts the bytes. *)
Unparseable(file, blob) ==
    IF file[1].ext \in {".xlsx", ".xls"}
    THEN blob.format # "workbook"
    ELSE blob.format \notin {"utf-8", "gbk", "utf-16"}

-----------------------------------------------------------------------------
(* Inputs. *)

(* line 14, line 16: type=['csv', 'xlsx'] *)
UploadTypes == {".csv", ".xlsx"}

Uploads(stem) == {None} \cup {Some([name |-> stem, ext |-> e]) : e \in UploadTypes}

SeqsUpTo(R, n) == UNION {[1..k -> R] : k \in 0..n}

(* Raw tables: all required columns with some rows, or one required       *)
(* column absent (the rows are never reached then).                       *)
RawTables(cols, rowseqs) ==
    {[columns |-> cols, rows |-> rs] : rs \in rowseqs}
    \cup {[columns |-> cols \ {c}, rows |-> <<>>] : c \in cols}

(* Uploaded bytes: a table in a parseable format, or garbage. *)
Blobs(tables) ==
    {[format |-> f, table |-> t] : f \in Formats \ {"garbage"}, t \in tables}
    \cup {[format |-> "garbage", table |-> [columns |-> {}, rows |-> <<>>]]}

-----------------------------------------------------------------------------
(* The script run. *)

Fresh ==
    /\ pc = "start"
    /\ df_inv_raw = None /\ df_sales_raw = None
    /\ df_sales = <<>> /\ df_inv = <<>>
    /\ df_sales_grouped = <<>> /\ df_inv_grouped = <<>>
    /\ merged_df = <<>> /\ scored_df = <<>> /\ cast_df = <<>> /\ final_df = <<>>
    /\ styles = <<>> /\ output = None
    /\ shown = {} /\ uncaught = FALSE /\ unparseable = {}

(* Widgets before a run: slider (line 10) and the two uploaders. *)
InitWith(G) ==
    /\ growth_factor \in G
    /\ inv_file \in Uploads("inv")
    /\ sales_file \in Uploads("sales")
    /\ Fresh

frames == <<df_sales, df_sales_grouped, df_inv, df_inv_grouped, merged_df,
            scored_df, cast_df, final_df, styles, output>>
widgets == <<growth_factor, inv_file, sales_file>>

(* line 44: nothing runs unless both files are uploaded *)
NoFiles ==
    /\ pc = "start"
    /\ inv_file = None \/ sales_file = None
    /\ pc' = "done"
    /\ UNCHANGED <<widgets, df_inv_raw, df_sales_raw, frames, shown, uncaught,
                   unparseable>>

(* line 45 *)
ReadInv(tables) ==
    /\ pc = "start"
    /\ inv_file # None /\ sales_file # None
    /\ \E blob \in Blobs(tables) :
        LET r == read_file(inv_file, blob)
        IN  /\ unparseable' = IF Unparseable(inv_file, blob)
                              THEN unparseable \cup {"inv"} ELSE unparseable
            /\ IF r.raised
               THEN /\ pc' = "crashed" /\ uncaught' = TRUE
                    /\ UNCHANGED df_inv_raw
               ELSE /\ pc' = "read_sales" /\ df_inv_raw' = r.df
                    /\ UNCHANGED uncaught
    /\ UNCHANGED <<widgets, df_sales_raw, frames, shown>>

(* line 46 and the guard of line 48 *)
ReadSales(tables) ==
    /\ pc = "read_sales"
    /\ \E blob \in Blobs(tables) :
        LET r == read_file(sales_file, blob)
        IN  /\ unparseable' = IF Unparseable(sales_file, blob)
                              THEN unparseable \cup {"sales"} ELSE unparseable
            /\ IF r.raised
               THEN /\ pc' = "crashed" /\ uncaught' = TRUE
                    /\ UNCHANGED df_sales_raw
               ELSE /\ df_sales_raw' = r.df
                    /\ pc' = IF df_inv_raw # None /\ r.df # None
                             THEN "step1" ELSE "done"
                    /\ UNCHANGED uncaught
    /\ UNCHANGED <<widgets, df_inv_raw, frames, shown>>

(* lines 114-115: the except branch *)
Except ==
    /\ shown' = shown \cup {"error"}
    /\ pc' = "done"

(* lines 51-57; a missing column raises KeyError at line 52 *)
Step1 ==
    /\ pc = "step1"
    /\ IF sales_cols \subseteq df_sales_raw[1].columns
       THEN /\ df_sales' = CleanSales(df_sales_raw[1].rows)
            /\ df_sales_grouped' = GroupSales(df_sales')
            /\ pc' = "step2"
            /\ UNCHANGED shown
       ELSE /\ Except
            /\ UNCHANGED <<df_sales, df_sales_grouped>>
    /\ UNCHANGED <<widgets, df_inv_raw, df_sales_raw, df_inv, df_inv_grouped, merged_df,
                   scored_df, cast_df, final_df, styles, output, uncaught,
                   unparseable>>

(* lines 60-71; a missing column raises KeyError at line 61 *)
Step2 ==
    /\ pc = "step2"
    /\ IF inv_target \subseteq df_inv_raw[1].columns
       THEN /\ df_inv' = CleanInv(df_inv_raw[1].rows)
            /\ df_inv_grouped' = GroupInv(df_inv')
            /\ pc' = "step3"
            /\ UNCHANGED shown
       ELSE /\ Except
            /\ UNCHANGED <<df_inv, df_inv_grouped>>
    /\ UNCHANGED <<widgets, df_inv_raw, df_sales_raw, df_sales, df_sales_grouped, merged_df,
                   scored_df, cast_df, final_df, styles, output, uncaught,
                   unparseable>>

(* lines 74-75 *)
Step3 ==
    /\ pc = "step3"
    /\ merged_df' = FillSales(Merge(df_inv_grouped, df_sales_grouped))
    /\ pc' = "step4"
    /\ UNCHANGED <<widgets, df_inv_raw, df_sales_raw, df_sales, df_sales_grouped,
                   df_inv, df_inv_grouped, scored_df, cast_df, final_df, styles,
                   output, shown, uncaught, unparseable>>

(* lines 79-97: score, cast, sort *)
Step4 ==
    /\ pc = "step4"
    /\ scored_df' = Score(merged_df, growth_factor)
    /\ cast_df' = Cast(scored_df')
    /\ final_df' = SortValues(cast_df')
    /\ pc' = "success"
    /\ UNCHANGED <<widgets, df_inv_raw, df_sales_raw, df_sales, df_sales_grouped,
                   df_inv, df_inv_grouped, merged_df, styles, output, shown,
                   uncaught, unparseable>>

(* line 99 *)
Success ==
    /\ pc = "success"
    /\ shown' = shown \cup {"success"}
    /\ pc' = "render"
    /\ UNCHANGED <<widgets, df_inv_raw, df_sales_raw, frames, uncaught, unparseable>>

(* lines 103-107: the Styler is evaluated when st.dataframe renders it *)
Render ==
    /\ pc = "render"
    /\ styles' = StyleApply(final_df)
    /\ shown' = shown \cup {"table"}
    /\ pc' = "export"
    /\ UNCHANGED <<widgets, df_inv_raw, df_sales_raw, df_sales, df_sales_grouped,
                   df_inv, df_inv_grouped, merged_df, scored_df, cast_df,
                   final_df, output, uncaught, unparseable>>

(* lines 110-111 *)
Export ==
    /\ pc = "export"
    /\ output' = Some(final_df)
    /\ pc' = "download"
    /\ UNCHANGED <<widgets, df_inv_raw, df_sales_raw, df_sales, df_sales_grouped,
                   df_inv, df_inv_grouped, merged_df, scored_df, cast_df,
                   final_df, styles, shown, uncaught, unparseable>>

(* line 112 *)
Download ==
    /\ pc = "download"
    /\ shown' = shown \cup {"download"}
    /\ pc' = "done"
    /\ UNCHANGED <<widgets, df_inv_raw, df_sales_raw, frames, uncaught, unparseable>>

(* A library call of lines 103-112 raises (the Styler or st.dataframe      *)
(* rejects the frame, no spreadsheet writer can write it, the widget call  *)
(* fails); the except branch of line 114 takes over.                       *)
LibraryRaises ==
    /\ pc \in {"render", "export", "download"}
    /\ Except
    /\ UNCHANGED <<widgets, df_inv_raw, df_sales_raw, frames, uncaught, unparseable>>

(* Streamlit runs the script again from the top with a cleared page; the  *)
(* widgets keep their values.                                             *)
Rerun ==
    /\ pc \in {"done", "crashed"}
    /\ pc' = "start"
    /\ df_inv_raw' = None /\ df_sales_raw' = None
    /\ df_sales' = <<>> /\ df_inv' = <<>>
    /\ df_sales_grouped' = <<>> /\ df_inv_grouped' = <<>>
    /\ merged_df' = <<>> /\ scored_df' = <<>> /\ cast_df' = <<>> /\ final_df' = <<>>
    /\ styles' = <<>> /\ output' = None
    /\ shown' = {} /\ uncaught' = FALSE /\ unparseable' = {}
    /\ UNCHANGED widgets

NextWith(invTables, salesTables) ==
    \/ NoFiles
    \/ ReadInv(invTables)
    \/ ReadSales(salesTables)
    \/ Step1
    \/ Step2
    \/ Step3
    \/ Step4
    \/ Success
    \/ Render
    \/ Export
    \/ Download
    \/ LibraryRaises
    \/ Rerun

-----------------------------------------------------------------------------
(* Bounds of the checked instances. *)
MaxInvRows == 2
MaxSalesRows == 2
MaxQty == 2

(* line 10: slider from 0.5 to 2.0 in steps of 0.1 *)
GrowthFactors == 5..20

(* Specification Spec: tables of several rows over a few keys; the slider *)
(* at its default or at 1.5.                                              *)
InvRows ==
    [country : {"US", "DE"}, name : {"n1"}, sku : {"A", "B"},
     fba : {Num(20)}, inbound : {Num(0)}, transit : {Num(0)}]
    \cup [country : {"US"}, name : {"n2"}, sku : {"A"},
          fba : {Num(20)}, inbound : {Num(0)}, transit : {Num(0)}]
    \cup [country : {"US"}, name : {"n1"}, sku : {NaNKey},
          fba : {Num(20)}, inbound : {Num(0)}, transit : {Num(0)}]

SalesRows ==
    [country : {"US", "DE"}, sku : {"A"}, sales : {Num(10)}]
    \cup [country : {"DE"}, sku : {"A"}, sales : {Num(-10)}]
    \cup [country : {"US"}, sku : {"B"}, sales : {Num(10)}]

InvTables == RawTables(inv_target, SeqsUpTo(InvRows, MaxInvRows))
SalesTables == RawTables(sales_cols, SeqsUpTo(SalesRows, MaxSalesRows))

Init == InitWith({10, 15})
Next == NextWith(InvTables, SalesTables)
Spec == Init /\ [][Next]_vars

(* Specification SpecRow: single-row tables over many cell contents and   *)
(* the whole slider range, for the per-row arithmetic.                    *)
QtyCells == {TextCell, NaNCell, Num(-10), Num(5)} \cup {Num(10 * i) : i \in 0..MaxQty}

InvRowsQ ==
    [country : {"US"}, name : {"n1"}, sku : {"A"},
     fba : QtyCells, inbound : {Num(0), Num(-10)}, transit : {Num(5), NaNCell}]

SalesRowsQ == [country : {"US"}, sku : {"A", "B"}, sales : QtyCells]

InvTablesQ == RawTables(inv_target, SeqsUpTo(InvRowsQ, 1))
SalesTablesQ == RawTables(sales_cols, SeqsUpTo(SalesRowsQ, 1))

InitRow == InitWith(GrowthFactors)
NextRow == NextWith(InvTablesQ, SalesTablesQ)
SpecRow == InitRow /\ [][NextRow]_vars

-----------------------------------------------------------------------------
(* Properties. *)

(* Lines 79-97 have run: final_df is the final summary. *)
AfterStep4 ==
    \/ pc \in {"success", "render", "export", "download"}
    \/ pc = "done" /\ "success" \in shown

(* st.dataframe has rendered the styled table. *)
Rendered == "table" \in shown

Abs(x) == IF x < 0 THEN 0 - x ELSE x

(* q is n/d rounded to the nearest integer, ties to the even one *)
Nearest(q, n, d) ==
    /\ 2 * Abs(q * d - n) <= Abs(d)
    /\ 2 * Abs(q * d - n) = Abs(d) => q % 2 = 0

Count(s, r) == Cardinality({i \in 1..Len(s) : s[i] = r})

InFinal(k) == \E j \in 1..Len(final_df) : JoinKey(final_df[j]) = k
InStock(k) == \E j \in 1..Len(df_inv_grouped) : JoinKey(df_inv_grouped[j]) = k
InSales(k) == \E j \in 1..Len(df_sales_grouped) : JoinKey(df_sales_grouped[j]) = k

C2_RatioOfShownValues ==
    AfterStep4 =>
        \A j \in 1..Len(final_df) :
            LET r == final_df[j]
            IN  /\ r.ratio = 990 <=> r.sales30 = 0
                /\ r.sales30 # 0 =>
                       Nearest(r.ratio, 10 * (r.fba + r.transit_total), r.sales30)

(* C2 amended: in every final row the ratio is 99.0 when the summed sales *)
(* before the integer cast is <= 0, and otherwise it is (summed FBA +     *)
(* summed in-transit) / summed sales, all before the cast, rounded to one *)
(* decimal with ties to the even digit.                                   *)
C2_RatioOfUncastValues ==
    AfterStep4 =>
        \A j \in 1..Len(final_df) :
            \E i \in 1..Len(merged_df) :
                /\ InvKey(merged_df[i]) = InvKey(final_df[j])
                /\ final_df[j].fba = AsTypeInt(merged_df[i].fba)
                /\ IF merged_df[i].sales30 <= 0
                   THEN final_df[j].ratio = 990
                   ELSE Nearest(final_df[j].ratio,
                                10 * (merged_df[i].fba + merged_df[i].transit_total),
                                merged_df[i].sales30)

(* C2 witness: a row whose sales sum is 0.5: shown as 0, with a ratio that is a quotient *)
C2_Witness ==
    /\ AfterStep4
    /\ \E j \in 1..Len(final_df), i \in 1..Len(merged_df) :
        /\ InvKey(merged_df[i]) = InvKey(final_df[j])
        /\ merged_df[i].sales30 = 5
        /\ final_df[j].sales30 = 0
        /\ final_df[j].ratio # 990

(* C3: a rendered row is marked, in every cell, exactly when its ratio is *)
(* below 2.0 and its sales is above 0; otherwise no cell is marked.       *)
C3_HighlightRule ==
    Rendered =>
        /\ Len(styles) = Len(final_df)
        /\ \A i \in 1..Len(final_df) :
            /\ Len(styles[i]) = 8
            /\ IF final_df[i].ratio < 20 /\ final_df[i].sales30 > 0
               THEN \A c \in 1..8 : styles[i][c] = highlight
               ELSE \A c \in 1..8 : styles[i][c] = default

(* C3 witness: a rendered selling row with ratio exactly 2.0, unmarked *)
C3_Witness ==
    /\ Rendered
    /\ \E i \in 1..Len(final_df) :
        /\ final_df[i].ratio = 20 /\ final_df[i].sales30 > 0
        /\ styles[i][1] = default

(* C4 as stated: after coercion every quantity of every row is >= 0, and  *)
(* so are the FBA stock, in-transit total and sales of every final row.   *)
C4_QuantitiesNonNegative ==
    /\ \A i \in 1..Len(df_sales) : df_sales[i].sales >= 0
    /\ \A i \in 1..Len(df_inv) :
        df_inv[i].fba >= 0 /\ df_inv[i].inbound >= 0 /\ df_inv[i].transit >= 0
    /\ AfterStep4 =>
        \A j \in 1..Len(final_df) :
            /\ final_df[j].fba >= 0
            /\ final_df[j].transit_total >= 0
            /\ final_df[j].sales30 >= 0

(* C4 amended: after coercion every quantity is a number: 0 for a        *)
(* non-numeric or missing cell, and the cell's own value for a numeric   *)
(* cell, a negative value included.                                       *)
C4_CoercionKeepsNumbers ==
    /\ df_sales # <<>> =>
        /\ Len(df_sales) = Len(df_sales_raw[1].rows)
        /\ \A i \in 1..Len(df_sales) :
            LET c == df_sales_raw[1].rows[i].sales
            IN  df_sales[i].sales = IF c.kind = "num" THEN c.v ELSE 0
    /\ df_inv # <<>> =>
        /\ Len(df_inv) = Len(df_inv_raw[1].rows)
        /\ \A i \in 1..Len(df_inv) :
            LET raw == df_inv_raw[1].rows[i]
            IN  /\ df_inv[i].fba = IF raw.fba.kind = "num" THEN raw.fba.v ELSE 0
                /\ df_inv[i].inbound
                       = IF raw.inbound.kind = "num" THEN raw.inbound.v ELSE 0
                /\ df_inv[i].transit
                       = IF raw.transit.kind = "num" THEN raw.transit.v ELSE 0

(* C4 witness: a negative sales cell that reaches the final row, and a text cell coerced to 0 *)
C4_Witness ==
    /\ AfterStep4
    /\ \E i \in 1..Len(df_sales) : df_sales[i].sales < 0
    /\ \E j \in 1..Len(final_df) : final_df[j].sales30 < 0
    /\ \E i \in 1..Len(df_inv) :
        df_inv_raw[1].rows[i].fba.kind = "text" /\ df_inv[i].fba = 0

(* C5 as stated: the error banner is never on the page together with the *)
(* success banner, the table or the download button.                      *)
C5_NoPartialOutput ==
    ~("error" \in shown /\ shown \cap {"success", "table", "download"} # {})

(* C6 as stated: for a file no attempted parser accepts, read_file        *)
(* returns None and no exception escapes; the pipeline body is not        *)
(* entered and no output is shown.                                        *)
C6_UnparseableGivesNone ==
    /\ "inv" \in unparseable =>
        /\ ~uncaught
        /\ df_inv_raw = None
        /\ pc \in {"read_sales", "done"}
        /\ shown = {}
    /\ "sales" \in unparseable =>
        /\ ~uncaught
        /\ df_sales_raw = None
        /\ pc = "done"
        /\ shown = {}

(* C7: the final summary is in ascending ratio order, rows of equal ratio *)
(* in descending sales order, and holds the same rows as before the sort, *)
(* each as often.                                                         *)
C7_Sorted ==
    AfterStep4 =>
        /\ \A i, j \in 1..Len(final_df) :
            i < j =>
                /\ final_df[i].ratio <= final_df[j].ratio
                /\ final_df[i].ratio = final_df[j].ratio
                       => final_df[i].sales30 >= final_df[j].sales30
        /\ Len(final_df) = Len(cast_df)
        /\ \A r \in SeqRange(final_df) \cup SeqRange(cast_df) :
            Count(final_df, r) = Count(cast_df, r)

(* C7 witness: the sort reordered the frame and two rows of equal ratio differ in sales *)
C7_Witness ==
    /\ AfterStep4
    /\ final_df # cast_df
    /\ \E i, j \in 1..Len(final_df) :
        /\ i < j
        /\ final_df[i].ratio = final_df[j].ratio
        /\ final_df[i].sales30 > final_df[j].sales30

(* C8: a key of the aggregated stock table without a row in the           *)
(* aggregated sales table is in the final summary with sales 0, forecast  *)
(* 0 and ratio 99.0, and is rendered unmarked.                            *)
C8_StockOnlyKept ==
    AfterStep4 =>
        \A i \in 1..Len(df_inv_grouped) :
            ~InSales(JoinKey(df_inv_grouped[i])) =>
                \E j \in 1..Len(final_df) :
                    /\ InvKey(final_df[j]) = InvKey(df_inv_grouped[i])
                    /\ final_df[j].sales30 = 0
                    /\ final_df[j].forecast = 0
                    /\ final_df[j].ratio = 990
                    /\ Rendered => \A c \in 1..8 : styles[j][c] = default

(* C8 witness: a rendered run with a stock-only key beside a stock key that has sales *)
C8_Witness ==
    /\ Rendered
    /\ df_sales_grouped # <<>>
    /\ \E i \in 1..Len(df_inv_grouped) : ~InSales(JoinKey(df_inv_grouped[i]))
    /\ \E i \in 1..Len(df_inv_grouped) : InSales(JoinKey(df_inv_grouped[i]))

C10_OneRowPerStockKey ==
    AfterStep4 =>
        /\ {InvKey(final_df[j]) : j \in 1..Len(final_df)}
               = {InvKey(r) : r \in {x \in SeqRange(df_inv_raw[1].rows) : ~HasNaN(InvKey(x))}}
        /\ \A i, j \in 1..Len(final_df) :
               InvKey(final_df[i]) = InvKey(final_df[j]) => i = j
        /\ Len(final_df) = Len(df_inv_grouped)

(* C10 witness: two stock rows share (country, SKU) and match one sales key summed from two rows *)
C10_Witness ==
    /\ AfterStep4
    /\ Len(df_inv_grouped) = 2
    /\ JoinKey(df_inv_grouped[1]) = JoinKey(df_inv_grouped[2])
    /\ Len(df_sales) = 2 /\ Len(df_sales_grouped) = 1
    /\ InStock(JoinKey(df_sales_grouped[1]))

====
